---- MODULE Spec2Model ----
(***************************************************************************)
(* Breast-cancer survival prediction: the FastAPI service                  *)
(* (src/fast-api/main.py) and the command-line tool                        *)
(* (src/linear-regression/predict_survival.py).                            *)
(*                                                                         *)
(* Conventions of the model                                                *)
(*  - a Python str is a sequence of one-character strings, so that         *)
(*    str.upper(), str.capitalize(), int() and float() are computed        *)
(*    character by character;                                              *)
(*  - a real number is a fixed-point integer: a day estimate is held in    *)
(*    tenths of a day ("T" suffix, 179.6 days is 1796), a float of a       *)
(*    record in thousandths ("M" suffix, a protein level of -5.0 is -5000);*)
(*  - a cell of the one-row DataFrame is a record [kind, n, s]: an int     *)
(*    (n), a float (n in thousandths) or a str (s);                        *)
(*  - a dict, and the one-row DataFrame made of it, is a record            *)
(*    [keys, val]: the keys in insertion (column) order and the value of   *)
(*    each key;                                                            *)
(*  - the risk_color emoji are written by their colour names.              *)
(***************************************************************************)
EXTENDS Integers, Sequences, FiniteSets, TLC

VARIABLES program, pc, bundle, request, response, call, stdin, console, batch

vars == <<program, pc, bundle, request, response, call, stdin, console, batch>>

(***************************************************************************)
(* Characters and strings                                                  *)
(***************************************************************************)
LowerAlpha ==
  <<"a","b","c","d","e","f","g","h","i","j","k","l","m",
    "n","o","p","q","r","s","t","u","v","w","x","y","z">>

UpperAlpha ==
  <<"A","B","C","D","E","F","G","H","I","J","K","L","M",
    "N","O","P","Q","R","S","T","U","V","W","X","Y","Z">>

Digits == <<"0","1","2","3","4","5","6","7","8","9">>

IndexIn(c, alpha) == CHOOSE i \in 1..Len(alpha) : alpha[i] = c

IsIn(c, alpha) == \E i \in 1..Len(alpha) : alpha[i] = c

\* one character of str.upper()
ToUpper(c) == IF IsIn(c, LowerAlpha) THEN UpperAlpha[IndexIn(c, LowerAlpha)] ELSE c

\* one character of str.lower()
ToLower(c) == IF IsIn(c, UpperAlpha) THEN LowerAlpha[IndexIn(c, UpperAlpha)] ELSE c

\* str.upper()
Upper(s) == [i \in 1..Len(s) |-> ToUpper(s[i])]

\* str.lower()
Lower(s) == [i \in 1..Len(s) |-> ToLower(s[i])]

\* str.capitalize(): first character upper-cased, the rest lower-cased
Capitalize(s) == [i \in 1..Len(s) |-> IF i = 1 THEN ToUpper(s[i]) ELSE ToLower(s[i])]

RECURSIVE LStrip(_)
LStrip(s) == IF Len(s) > 0 /\ s[1] = " " THEN LStrip(Tail(s)) ELSE s

RECURSIVE RStrip(_)
RStrip(s) == IF Len(s) > 0 /\ s[Len(s)] = " " THEN RStrip(SubSeq(s, 1, Len(s) - 1)) ELSE s

\* str.strip()
Strip(s) == RStrip(LStrip(s))

\* x in [a, b, ...] for a Python list written as a sequence
InList(x, list) == \E i \in 1..Len(list) : list[i] = x

sMale == <<"M","a","l","e">>
sFemale == <<"F","e","m","a","l","e">>
sPositive == <<"P","o","s","i","t","i","v","e">>
sNegative == <<"N","e","g","a","t","i","v","e">>
sI == <<"I">>
sII == <<"I","I">>
sIII == <<"I","I","I">>

(***************************************************************************)
(* PatientData: the field declarations and validators                      *)
(***************************************************************************)
AgeMin == 18
AgeMax == 100
\* Protein bounds -5.0 and 5.0, in thousandths
ProteinMinM == -5000
ProteinMaxM == 5000

\* AgeInRange with the upper bound excluded (lt=100 for le=100)
AgeInRangeExclusive(n) == n >= AgeMin /\ n < AgeMax

\* Field(..., ge=18, le=100)
AgeInRange(n) == n >= AgeMin /\ n <= AgeMax

\* Field(..., ge=-5.0, le=5.0)
ProteinInRange(m) == m >= ProteinMinM /\ m <= ProteinMaxM

\* A validator's outcome: the normalized value, or a ValueError
Accept(v) == [ok |-> TRUE, value |-> v]
Reject == [ok |-> FALSE, value |-> <<>>]

GenderAllowed == <<Upper(sMale), Upper(sFemale), sMale, sFemale, Lower(sMale), Lower(sFemale)>>

validate_gender(v) ==
  IF ~InList(Upper(v), [i \in 1..Len(GenderAllowed) |-> Upper(GenderAllowed[i])])
  THEN Reject
  ELSE Accept(Upper(v))

StageAllowed == <<sI, sII, sIII>>

\* validate_tumour_stage testing v instead of v.upper()
validate_tumour_stage_exact(v) ==
  IF ~InList(v, StageAllowed)
  THEN Reject
  ELSE Accept(Upper(v))

validate_tumour_stage(v) ==
  IF ~InList(Upper(v), StageAllowed)
  THEN Reject
  ELSE Accept(Upper(v))

StatusAllowed ==
  <<sPositive, sNegative, Lower(sPositive), Lower(sNegative), Upper(sPositive), Upper(sNegative)>>

validate_status(v) ==
  IF ~InList(v, StatusAllowed)
  THEN Reject
  ELSE Accept(Capitalize(v))

(***************************************************************************)
(* Numbers, cells and their conversions                                    *)
(***************************************************************************)
IntCell(n) == [kind |-> "int", n |-> n, s |-> <<>>]
FloatCell(m) == [kind |-> "float", n |-> m, s |-> <<>>]
StrCell(s) == [kind |-> "str", n |-> 0, s |-> s]

IsDigit(c) == IsIn(c, Digits)

DigitVal(c) == IndexIn(c, Digits) - 1

IsDigits(s) == Len(s) > 0 /\ \A i \in 1..Len(s) : IsDigit(s[i])

RECURSIVE DigitsVal(_)
DigitsVal(s) ==
  IF Len(s) = 0 THEN 0
  ELSE 10 * DigitsVal(SubSeq(s, 1, Len(s) - 1)) + DigitVal(s[Len(s)])

HasSign(s) == Len(s) > 0 /\ s[1] \in {"+", "-"}

Unsigned(s) == IF HasSign(s) THEN Tail(s) ELSE s

Signed(s, magnitude) == IF HasSign(s) /\ s[1] = "-" THEN -magnitude ELSE magnitude

\* int(s): an optional sign and decimal digits; anything else is a ValueError
IntParses(s) == IsDigits(Unsigned(s))

IntOf(s) == Signed(s, DigitsVal(Unsigned(s)))

DotAt(s) == CHOOSE i \in 1..Len(s) : s[i] = "."

\* float(s), in thousandths: an optional sign and digits with at most one
\* point, followed by at most three digits (the fixed point carries three
\* decimals)
FloatParses(s) ==
  LET u == Unsigned(s) IN
    \/ IsDigits(u)
    \/ /\ IsIn(".", u)
       /\ Len(u) > 1
       /\ Len(u) - DotAt(u) <= 3
       /\ \A i \in 1..Len(u) : i # DotAt(u) => IsDigit(u[i])

\* the fraction digits after the point, as thousandths
FractionM(frac) ==
  IF Len(frac) = 0 THEN 0
  ELSE IF Len(frac) = 1 THEN 100 * DigitsVal(frac)
  ELSE IF Len(frac) = 2 THEN 10 * DigitsVal(frac)
  ELSE DigitsVal(frac)

FloatOfM(s) ==
  LET u == Unsigned(s) IN
    IF IsDigits(u) THEN Signed(s, 1000 * DigitsVal(u))
    ELSE Signed(s, 1000 * DigitsVal(SubSeq(u, 1, DotAt(u) - 1))
                   + FractionM(SubSeq(u, DotAt(u) + 1, Len(u))))

RECURSIVE NatStr(_)
NatStr(n) == IF n < 10 THEN <<Digits[n + 1]>> ELSE NatStr(n \div 10) \o <<Digits[(n % 10) + 1]>>

\* str(n) of an int
IntStr(n) == IF n < 0 THEN <<"-">> \o NatStr(-n) ELSE NatStr(n)

\* the fraction digits of str(x): no trailing zero, at least one digit
FractionStr(f) ==
  IF f % 100 = 0 THEN NatStr(f \div 100)
  ELSE IF f % 10 = 0 THEN NatStr(f \div 100) \o NatStr((f \div 10) % 10)
  ELSE NatStr(f \div 100) \o NatStr((f \div 10) % 10) \o NatStr(f % 10)

\* str(x) of a float held in thousandths: 0.5 is "0.5", 68.0 is "68.0",
\* 0.008 is "0.008"
FloatStr(m) ==
  LET a == IF m < 0 THEN -m ELSE m IN
    (IF m < 0 THEN <<"-">> ELSE <<>>) \o NatStr(a \div 1000) \o <<".">> \o FractionStr(a % 1000)

\* df[col].astype(str) of one cell
AsTypeStr(cell) ==
  IF cell.kind = "str" THEN cell.s
  ELSE IF cell.kind = "int" THEN IntStr(cell.n)
  ELSE FloatStr(cell.n)

\* round() of the rational num/den (den > 0) to an integer, ties to even
RoundHalfEven(num, den) ==
  LET q == num \div den
      r == num % den
  IN IF 2 * r < den THEN q
     ELSE IF 2 * r > den THEN q + 1
     ELSE IF q % 2 = 0 THEN q ELSE q + 1

(***************************************************************************)
(* PatientData: parsing a request body                                     *)
(***************************************************************************)
Fields ==
  <<"Age", "Gender", "Protein1", "Protein2", "Protein3", "Protein4", "Tumour_Stage",
    "Histology", "ER_status", "PR_status", "HER2_status", "Surgery_type">>

FieldSet == {Fields[i] : i \in 1..Len(Fields)}

ProteinFields == {"Protein1", "Protein2", "Protein3", "Protein4"}

StatusFields == {"ER_status", "PR_status", "HER2_status"}

\* Field(..., alias=...)
Alias(f) ==
  CASE f = "ER_status" -> "ER status"
    [] f = "PR_status" -> "PR status"
    [] f = "HER2_status" -> "HER2 status"
    [] OTHER -> f

\* model_config = ConfigDict(populate_by_name=True): a field is read from its
\* alias, or else from its own name
Supplied(body, f) == Alias(f) \in DOMAIN body \/ f \in DOMAIN body

RawValue(body, f) == IF Alias(f) \in DOMAIN body THEN body[Alias(f)] ELSE body[f]

FieldOk(cell) == [ok |-> TRUE, cell |-> cell]
FieldError == [ok |-> FALSE, cell |-> IntCell(0)]

FromValidator(outcome) == IF outcome.ok THEN FieldOk(StrCell(outcome.value)) ELSE FieldError

\* Age: int = Field(..., ge=18, le=100)
ParseAge(raw) ==
  LET isInt == \/ raw.kind = "int"
               \/ raw.kind = "float" /\ raw.n % 1000 = 0
               \/ raw.kind = "str" /\ IntParses(raw.s)
      n == IF raw.kind = "int" THEN raw.n
           ELSE IF raw.kind = "float" THEN raw.n \div 1000
           ELSE IntOf(raw.s)
  IN IF isInt /\ AgeInRange(n) THEN FieldOk(IntCell(n)) ELSE FieldError

\* ProteinN: float = Field(..., ge=-5.0, le=5.0)
ParseProtein(raw) ==
  LET isFloat == raw.kind \in {"int", "float"} \/ (raw.kind = "str" /\ FloatParses(raw.s))
      m == IF raw.kind = "int" THEN 1000 * raw.n
           ELSE IF raw.kind = "float" THEN raw.n
           ELSE FloatOfM(raw.s)
  IN IF isFloat /\ ProteinInRange(m) THEN FieldOk(FloatCell(m)) ELSE FieldError

\* a str field takes a JSON string only; its field_validator then runs
ParseStr(f, raw) ==
  IF raw.kind # "str" THEN FieldError
  ELSE IF f = "Gender" THEN FromValidator(validate_gender(raw.s))
  ELSE IF f = "Tumour_Stage" THEN FromValidator(validate_tumour_stage(raw.s))
  ELSE IF f \in StatusFields THEN FromValidator(validate_status(raw.s))
  ELSE FieldOk(raw)

ParseField(body, f) ==
  IF ~Supplied(body, f) THEN FieldError
  ELSE IF f = "Age" THEN ParseAge(RawValue(body, f))
  ELSE IF f \in ProteinFields THEN ParseProtein(RawValue(body, f))
  ELSE ParseStr(f, RawValue(body, f))

\* the fields named by the validation error of a body (empty: the body is valid)
ValidationErrors(body) == {f \in FieldSet : ~ParseField(body, f).ok}

\* the PatientData instance of a valid body; keys of the body that are no
\* field are ignored
PatientData(body) == [f \in FieldSet |-> ParseField(body, f).cell]

Dict(keys, val) == [keys |-> keys, val |-> val]

KeySet(d) == {d.keys[i] : i \in 1..Len(d.keys)}

IsStatusField(f) == f \in StatusFields

IsOtherField(f) == f \notin StatusFields

\* self.model_dump(by_alias=False) holds the fields in declaration order; each
\* status is then popped and stored again, at the end, under its model name
to_model_dict(self) ==
  LET popped == SelectSeq(Fields, IsStatusField)
      keys == SelectSeq(Fields, IsOtherField) \o [i \in 1..Len(popped) |-> Alias(popped[i])]
  IN Dict(keys, [k \in {keys[i] : i \in 1..Len(keys)} |->
                   self[CHOOSE f \in FieldSet : (IF f \in StatusFields THEN Alias(f) ELSE f) = k]])

(***************************************************************************)
(* The artifact bundle: model, scaler, label_encoders and metadata         *)
(***************************************************************************)
sInfiltrating == <<"I","n","f","i","l","t","r","a","t","i","n","g">>
sDuctal == <<"D","u","c","t","a","l">>
sLobular == <<"L","o","b","u","l","a","r">>
sMucinous == <<"M","u","c","i","n","o","u","s">>
sCarcinoma == <<"C","a","r","c","i","n","o","m","a">>
sLumpectomy == <<"L","u","m","p","e","c","t","o","m","y">>
sMastectomy == <<"M","a","s","t","e","c","t","o","m","y">>
sModified == <<"M","o","d","i","f","i","e","d">>
sRadical == <<"R","a","d","i","c","a","l">>
sOther == <<"O","t","h","e","r">>
sAlive == <<"A","l","i","v","e">>
sDead == <<"D","e","a","d">>
sSpace == <<" ">>
sIDC == sInfiltrating \o sSpace \o sDuctal \o sSpace \o sCarcinoma
sILC == sInfiltrating \o sSpace \o sLobular \o sSpace \o sCarcinoma
sMucinousCarcinoma == sMucinous \o sSpace \o sCarcinoma
sMRM == sModified \o sSpace \o sRadical \o sSpace \o sMastectomy

\* The classes_ of a fitted LabelEncoder, in its (sorted) order
GenderClasses == <<Upper(sFemale), Upper(sMale)>>
StageClasses == <<sI, sII, sIII>>
HistologyClasses == <<sIDC, sILC, sMucinousCarcinoma>>
StatusClasses == <<sNegative, sPositive>>
SurgeryClasses == <<sLumpectomy, sMastectomy, sMRM, sOther>>
PatientStatusClasses == <<sAlive, sDead>>

\* metadata['features'] of a model trained on the twelve record columns
FeaturesA ==
  <<"Age", "Gender", "Protein1", "Protein2", "Protein3", "Protein4", "Tumour_Stage",
    "Histology", "ER status", "PR status", "HER2 status", "Surgery_type">>

EncodersA ==
  [col \in {"Gender", "Tumour_Stage", "Histology", "ER status", "PR status",
            "HER2 status", "Surgery_type"} |->
     CASE col = "Gender" -> GenderClasses
       [] col = "Tumour_Stage" -> StageClasses
       [] col = "Histology" -> HistologyClasses
       [] col = "Surgery_type" -> SurgeryClasses
       [] OTHER -> StatusClasses]

\* a model trained on another column order, with two more columns that no
\* request supplies (one of them categorical), on data whose ER status was
\* always Positive, and with an encoder for a column that is no feature
FeaturesB ==
  <<"Protein1", "Protein2", "Protein3", "Protein4", "Age", "Patient_Status", "Gender",
    "Histology", "Surgery_type", "Tumour_Stage", "HER2 status", "PR status", "ER status",
    "Tumour_Size">>

EncodersB ==
  [col \in DOMAIN EncodersA \cup {"Patient_Status", "Hospital"} |->
     CASE col = "Patient_Status" -> PatientStatusClasses
       [] col = "Hospital" -> <<sOther>>
       [] col = "ER status" -> <<sPositive>>
       [] OTHER -> EncodersA[col]]

\* The four files, in the order the try block loads them
LoadOrder ==
  <<"best_breast_cancer_model.pkl", "scaler.pkl", "label_encoders.pkl", "model_metadata.json">>

ArtifactFiles == {LoadOrder[i] : i \in 1..Len(LoadOrder)}

\* The globals model, scaler, label_encoders and metadata: files are the
\* files whose global is bound, loaded says that the try block ran to its end
NoBundle == [loaded |-> FALSE, files |-> {}, features |-> <<>>, label_encoders |-> <<>>]

Bundles ==
  {[loaded |-> TRUE, files |-> ArtifactFiles, features |-> FeaturesA,
    label_encoders |-> EncodersA],
   [loaded |-> TRUE, files |-> ArtifactFiles, features |-> FeaturesB,
    label_encoders |-> EncodersB]}

\* What opening a file gives: its content, FileNotFoundError, or another
\* exception (a file that cannot be unpickled or is no JSON)
LoadOutcomes == {"ok", "missing", "unreadable"}

\* The globals when the k-th load raises: the files before it are bound
BundleUpTo(k, b) ==
  [loaded |-> FALSE,
   files |-> {LoadOrder[i] : i \in 1..(k - 1)},
   features |-> <<>>,
   label_encoders |-> IF k > 3 THEN b.label_encoders ELSE <<>>]

\* The day thresholds of the risk stratification
HighRiskDays == 180
ElevatedRiskDays == 365
ModerateRiskDays == 730

\* How far from 0 and from each threshold the estimates of the regressor
\* go, in tenths of a day
Spread == 6

\* the values model.predict() returns that are enumerated, in tenths of a
\* day: 0 and each threshold, and the values 1, Spread - 2 and Spread tenths
\* below and above it (179.6 is 4 tenths below 180)
ModelOutputs ==
  {10 * d + sign * k : d \in {0, HighRiskDays, ElevatedRiskDays, ModerateRiskDays},
                       sign \in {-1, 1}, k \in {0, 1, Spread - 2, Spread}}

(***************************************************************************)
(* predict_survival                                                        *)
(***************************************************************************)
FeatureSet(features) == {features[i] : i \in 1..Len(features)}

\* df = pd.DataFrame([patient_data]): one row, the columns in key order
DataFrame(patient_data) == patient_data

\* WithFeatures filling a missing feature with -1 instead of 0
WithFeaturesMinusOne(df, features) ==
  LET Missing(feature) == feature \notin KeySet(df)
      added == SelectSeq(features, Missing)
  IN Dict(df.keys \o added,
          [col \in KeySet(df) \cup FeatureSet(features) |->
             IF col \in KeySet(df) THEN df.val[col] ELSE IntCell(-1)])

\* for feature in metadata['features']: if feature not in df.columns: df[feature] = 0
\* (a new column is appended)
WithFeatures(df, features) ==
  LET Missing(feature) == feature \notin KeySet(df)
      added == SelectSeq(features, Missing)
  IN Dict(df.keys \o added,
          [col \in KeySet(df) \cup FeatureSet(features) |->
             IF col \in KeySet(df) THEN df.val[col] ELSE IntCell(0)])

\* le.transform([x]): the index of x in classes_; an unseen label is a ValueError
Knows(classes, x) == InList(x, classes)

Transform(classes, x) == (CHOOSE i \in 1..Len(classes) : classes[i] = x) - 1

\* EncodeCell without the except branch: an unseen label is left in the frame
EncodeCellUnguarded(classes, cell) ==
  IF Knows(classes, AsTypeStr(cell)) THEN IntCell(Transform(classes, AsTypeStr(cell)))
  ELSE cell

\* try: df[col] = le.transform(df[col].astype(str)) except ValueError: df[col] = 0
EncodeCell(classes, cell) ==
  IF Knows(classes, AsTypeStr(cell)) THEN IntCell(Transform(classes, AsTypeStr(cell)))
  ELSE IntCell(0)

\* for col, le in label_encoders.items(): if col in df.columns: ...
Encoded(df, encoders) ==
  Dict(df.keys,
       [col \in KeySet(df) |->
          IF col \in DOMAIN encoders THEN EncodeCell(encoders[col], df.val[col]) ELSE df.val[col]])

\* Reordered without the selection: the frame keeps its own columns
ReorderedKeepAll(df, features) == df

\* df = df[metadata['features']]
Reordered(df, features) == Dict(features, [col \in FeatureSet(features) |-> df.val[col]])

\* metadata['features'] after the call: feature_names is the list of the
\* metadata itself, and the loops over it and df[feature_names] only read it
FeaturesAfter(features, df) == features

\* EncodersAfter where the except branch adds the unseen label to the classes
\* of the encoder
EncodersAfterFitting(encoders, df) ==
  [col \in DOMAIN encoders |->
     IF col \in KeySet(df) /\ ~Knows(encoders[col], AsTypeStr(df.val[col]))
     THEN Append(encoders[col], AsTypeStr(df.val[col]))
     ELSE encoders[col]]

\* label_encoders after the call: le.transform reads the classes of le, and
\* the except branch assigns to the frame
EncodersAfter(encoders, df) == encoders

\* The globals after one call of predict_survival: nothing is assigned to
\* model, scaler, label_encoders or metadata
GlobalsAfter(b, patient_data) ==
  [b EXCEPT
     !.features = FeaturesAfter(b.features, DataFrame(patient_data)),
     !.label_encoders =
        EncodersAfter(b.label_encoders, WithFeatures(DataFrame(patient_data), b.features))]

\* the frame handed to scaler.transform: the frame of the record after the
\* three steps, each applied to the result of the one before
Aligned(patient_data, b) ==
  CHOOSE df \in
    {Reordered(encoded, b.features) :
       encoded \in {Encoded(filled, b.label_encoders) :
         filled \in {WithFeatures(DataFrame(patient_data), b.features)}}} : TRUE

\* scaler.transform(df) converts the frame to floats and raises ValueError on
\* a string that is no number
ScalerRaises(df) == \E col \in KeySet(df) : df.val[col].kind = "str" /\ ~FloatParses(df.val[col].s)

\* RiskTier with <= for < at the first threshold
RiskTierInclusive(daysT) ==
  IF daysT <= 10 * HighRiskDays THEN
    [risk |-> "HIGH RISK", color |-> "red",
     action |-> "Immediate intensive care and close monitoring required"]
  ELSE IF daysT < 10 * ElevatedRiskDays THEN
    [risk |-> "ELEVATED RISK", color |-> "orange",
     action |-> "Enhanced monitoring and aggressive treatment recommended"]
  ELSE IF daysT < 10 * ModerateRiskDays THEN
    [risk |-> "MODERATE RISK", color |-> "yellow",
     action |-> "Standard treatment protocol with regular follow-ups"]
  ELSE
    [risk |-> "LOWER RISK", color |-> "green",
     action |-> "Standard care with routine monitoring"]

\* the if/elif chain over predicted_days (in tenths)
RiskTier(daysT) ==
  IF daysT < 10 * HighRiskDays THEN
    [risk |-> "HIGH RISK", color |-> "red",
     action |-> "Immediate intensive care and close monitoring required"]
  ELSE IF daysT < 10 * ElevatedRiskDays THEN
    [risk |-> "ELEVATED RISK", color |-> "orange",
     action |-> "Enhanced monitoring and aggressive treatment recommended"]
  ELSE IF daysT < 10 * ModerateRiskDays THEN
    [risk |-> "MODERATE RISK", color |-> "yellow",
     action |-> "Standard treatment protocol with regular follow-ups"]
  ELSE
    [risk |-> "LOWER RISK", color |-> "green",
     action |-> "Standard care with routine monitoring"]

\* round(predicted_days, 0), in whole days
ReportedDays(daysT) == RoundHalfEven(daysT, 10)

\* round(predicted_days / 30, 1), in tenths of a month
ReportedMonthsT(daysT) == RoundHalfEven(daysT, 30)

\* round(predicted_days / 365, 2), in hundredths of a year
ReportedYearsH(daysT) == RoundHalfEven(10 * daysT, 365)

NoResult ==
  [predicted_days |-> 0, predicted_months |-> 0, predicted_years |-> 0,
   risk_category |-> "", risk_color |-> "", recommendation |-> ""]

\* ResultOf with the tier taken from the rounded days
ResultOfRounded(daysT) ==
  LET tier == RiskTier(10 * ReportedDays(daysT)) IN
    [predicted_days |-> ReportedDays(daysT),
     predicted_months |-> ReportedMonthsT(daysT),
     predicted_years |-> ReportedYearsH(daysT),
     risk_category |-> tier.risk,
     risk_color |-> tier.color,
     recommendation |-> tier.action]

\* the dict predict_survival returns for the estimate daysT
ResultOf(daysT) ==
  LET tier == RiskTier(daysT) IN
    [predicted_days |-> ReportedDays(daysT),
     predicted_months |-> ReportedMonthsT(daysT),
     predicted_years |-> ReportedYearsH(daysT),
     risk_category |-> tier.risk,
     risk_color |-> tier.color,
     recommendation |-> tier.action]

\* No call of predict_survival
NoCall ==
  [made |-> FALSE, patient_data |-> Dict(<<>>, <<>>), df |-> Dict(<<>>, <<>>), raised |-> FALSE,
   predicted_days |-> 0, result |-> NoResult, globals |-> NoBundle]

\* One call of predict_survival on patient_data, where model.predict returns
\* daysT: the argument, the frame handed to the scaler, the raw estimate and
\* the outcome (a result, or the exception of the scaler), and the globals as
\* the call leaves them
predict_survival(patient_data, b, daysT) ==
  CHOOSE c \in
    {IF ScalerRaises(df)
     THEN [made |-> TRUE, patient_data |-> patient_data, df |-> df, raised |-> TRUE,
           predicted_days |-> 0, result |-> NoResult,
           globals |-> GlobalsAfter(b, patient_data)]
     ELSE [made |-> TRUE, patient_data |-> patient_data, df |-> df, raised |-> FALSE,
           predicted_days |-> daysT, result |-> ResultOf(daysT),
           globals |-> GlobalsAfter(b, patient_data)] :
     df \in {Aligned(patient_data, b)}} : TRUE

(***************************************************************************)
(* The inputs that are enumerated                                          *)
(***************************************************************************)
\* every casing of the word w
Casings(w) ==
  {[i \in 1..Len(w) |-> IF up[i] THEN ToUpper(w[i]) ELSE ToLower(w[i])] :
     up \in [1..Len(w) -> BOOLEAN]}

\* How far around 18 and 100 the ages of the requests go
AgeMargin == 3

\* How far around -5.0 and 5.0 the protein levels of the requests go, in
\* thousandths
ProteinMarginM == 3

AgeInputs ==
  {IntCell(b + k) : b \in {AgeMin, AgeMax}, k \in (-AgeMargin)..AgeMargin}
    \cup {IntCell(n) : n \in {-1, 0, 42, 52, 150}}

ProteinInputs ==
  {FloatCell(b + k) : b \in {ProteinMinM, ProteinMaxM}, k \in (-ProteinMarginM)..ProteinMarginM}
    \cup {FloatCell(m) : m \in {-9900, -500, -50, 0, 8, 950, 2150, 9900}}

GenderInputs ==
  {StrCell(s) : s \in Casings(sMale) \cup Casings(sFemale)
                      \cup {<<>>, sOther, <<"M">>, sMale \o <<"s">>, sSpace \o sMale}}

StageInputs ==
  {StrCell(s) : s \in Casings(sI) \cup Casings(sII) \cup Casings(sIII)
                      \cup {<<>>, <<"I","V">>, <<"1">>, sIII \o sI, sII \o sSpace}}

StatusInputs ==
  {StrCell(s) : s \in Casings(sPositive) \cup Casings(sNegative)
                      \cup {<<>>, <<"y","e","s">>, <<"P","o","s">>, sPositive \o sSpace,
                            <<"+">>}}

HistologyInputs == {StrCell(s) : s \in {sIDC, sILC, sMucinousCarcinoma, Lower(sIDC), sCarcinoma, <<>>}}

SurgeryInputs == {StrCell(s) : s \in {sLumpectomy, sMastectomy, sMRM, sOther, Upper(sOther), <<>>}}

\* the values enumerated for the field f of a request body
FieldInputs(f) ==
  CASE f = "Age" -> AgeInputs
    [] f \in ProteinFields -> ProteinInputs
    [] f = "Gender" -> GenderInputs
    [] f = "Tumour_Stage" -> StageInputs
    [] f \in StatusFields -> StatusInputs
    [] f = "Histology" -> HistologyInputs
    [] OTHER -> SurgeryInputs

\* the first example patient of the command-line tool, as a request body
BaseBody ==
  [k \in {Alias(f) : f \in FieldSet} |->
     CASE k = "Age" -> IntCell(68)
       [] k = "Gender" -> StrCell(Upper(sFemale))
       [] k = "Protein1" -> FloatCell(-500)
       [] k = "Protein2" -> FloatCell(800)
       [] k = "Protein3" -> FloatCell(200)
       [] k = "Protein4" -> FloatCell(-300)
       [] k = "Tumour_Stage" -> StrCell(sIII)
       [] k = "Histology" -> StrCell(sIDC)
       [] k = "ER status" -> StrCell(sNegative)
       [] k = "PR status" -> StrCell(sNegative)
       [] k = "HER2 status" -> StrCell(sPositive)
       [] OTHER -> StrCell(sMastectomy)]

With(d, k, v) == [x \in DOMAIN d \cup {k} |-> IF x = k THEN v ELSE d[x]]

Without(d, k) == [x \in DOMAIN d \ {k} |-> d[x]]

\* a body that differs from BaseBody in the value of one field
OneFieldBodies == UNION {{With(BaseBody, Alias(f), v) : v \in FieldInputs(f)} : f \in FieldSet}

\* a body that lacks a field, carries a key that is no field, or names a
\* status field by its Python name
KeyBodies ==
  {Without(BaseBody, Alias(f)) : f \in FieldSet}
    \cup {With(BaseBody, "Patient_ID", IntCell(7)), With(BaseBody, "Hospital", StrCell(sOther))}
    \cup {With(Without(BaseBody, Alias(f)), f, StrCell(Lower(sPositive))) : f \in StatusFields}

\* bodies that differ from BaseBody in several fields at once
ManyFieldBodies ==
  {With(With(With(With(BaseBody, "Age", a), "Gender", g), "ER status", e), "Protein1", p) :
     a \in {IntCell(AgeMin - 1), IntCell(AgeMin)},
     g \in {StrCell(Lower(sMale)), StrCell(<<"m","a","n">>)},
     e \in {StrCell(Upper(sPositive)), StrCell(<<"p">> \o Tail(Upper(sPositive)))},
     p \in {FloatCell(ProteinMaxM), FloatCell(ProteinMaxM + 1)}}

Bodies == OneFieldBodies \cup KeyBodies \cup ManyFieldBodies

(***************************************************************************)
(* State                                                                   *)
(***************************************************************************)
NoRequest == [present |-> FALSE, body |-> <<>>]

NoResponse == [status |-> 0, kind |-> "", errors |-> {}, result |-> NoResult]

NoStdin == [typed |-> FALSE, lines |-> <<>>]

NoBatch ==
  [rows |-> <<>>, idx |-> 0, results |-> <<>>, written |-> FALSE, output_file |-> <<>>,
   summary |-> FALSE]

Init ==
  /\ program \in {"api", "cli"}
  /\ pc = "loading"
  /\ bundle = NoBundle
  /\ request = NoRequest
  /\ response = NoResponse
  /\ call = NoCall
  /\ stdin = NoStdin
  /\ console = <<>>
  /\ batch = NoBatch

(***************************************************************************)
(* Start-up of either program                                              *)
(***************************************************************************)
\* The module-level try block: the four artifacts are loaded in order. The
\* first load that raises ends the block: FileNotFoundError is caught,
\* reported and the process exits; any other exception is not caught and ends
\* the import of the module with a traceback. Nothing past the block runs in
\* either case.
LoadArtifactsUnguarded ==
  /\ pc = "loading"
  /\ \E outcome \in [ArtifactFiles -> LoadOutcomes], b \in Bundles :
       LET failed == {i \in 1..Len(LoadOrder) : outcome[LoadOrder[i]] # "ok"} IN
         /\ bundle' = IF failed = {} THEN b
                       ELSE BundleUpTo(CHOOSE k \in failed : \A i \in failed : k <= i, b)
         /\ console' = Append(console, IF failed = {} THEN "loaded" ELSE "error loading")
         /\ pc' = IF program = "api" THEN "serving" ELSE "examples"
  /\ UNCHANGED <<program, request, response, call, stdin, batch>>

LoadArtifacts ==
  /\ pc = "loading"
  /\ \E outcome \in [ArtifactFiles -> LoadOutcomes], b \in Bundles :
       LET failed == {i \in 1..Len(LoadOrder) : outcome[LoadOrder[i]] # "ok"} IN
         IF failed = {}
         THEN /\ bundle' = b
              /\ console' = Append(console, "loaded")
              /\ pc' = IF program = "api" THEN "serving" ELSE "examples"
         ELSE LET k == CHOOSE k \in failed : \A i \in failed : k <= i IN
                /\ bundle' = BundleUpTo(k, b)
                /\ console' = Append(console, IF outcome[LoadOrder[k]] = "missing"
                                               THEN "error loading" ELSE "traceback")
                /\ pc' = "exited"
  /\ UNCHANGED <<program, request, response, call, stdin, batch>>

(***************************************************************************)
(* The FastAPI service                                                     *)
(***************************************************************************)
\* POST /predict: the body is parsed into PatientData (a body that fails is
\* answered 422 and predict() is not entered), then predict() runs
predict ==
  /\ program = "api"
  /\ pc = "serving"
  /\ response = NoResponse
  /\ \E body \in Bodies :
       \E errors \in {ValidationErrors(body)} :
         /\ request' = [present |-> TRUE, body |-> body]
         /\ IF errors # {}
            THEN /\ call' = NoCall
                 /\ bundle' = bundle
                 /\ response' = [status |-> 422, kind |-> "predict", errors |-> errors,
                                 result |-> NoResult]
            ELSE \E patient_dict \in {to_model_dict(PatientData(body))}, daysT \in ModelOutputs :
                   \E c \in {predict_survival(patient_dict, bundle, daysT)} :
                     /\ call' = c
                     /\ bundle' = c.globals
                     /\ response' =
                          IF c.raised
                          THEN [status |-> 500, kind |-> "predict", errors |-> {},
                                result |-> NoResult]
                          ELSE [status |-> 200, kind |-> "predict", errors |-> {},
                                result |-> c.result]
  /\ UNCHANGED <<program, pc, stdin, console, batch>>

\* GET /
read_root ==
  /\ program = "api"
  /\ pc = "serving"
  /\ response = NoResponse
  /\ response' = [status |-> 200, kind |-> "root", errors |-> {}, result |-> NoResult]
  /\ UNCHANGED <<program, pc, bundle, request, call, stdin, console, batch>>

\* GET /health
health_check ==
  /\ program = "api"
  /\ pc = "serving"
  /\ response = NoResponse
  /\ response' = [status |-> 200, kind |-> "health", errors |-> {}, result |-> NoResult]
  /\ UNCHANGED <<program, pc, bundle, request, call, stdin, console, batch>>

\* The response is sent; the objects of the request are discarded
Respond ==
  /\ program = "api"
  /\ response # NoResponse
  /\ request' = NoRequest
  /\ response' = NoResponse
  /\ call' = NoCall
  /\ UNCHANGED <<program, pc, bundle, stdin, console, batch>>

(***************************************************************************)
(* The command-line tool                                                   *)
(***************************************************************************)
PatientKeys ==
  <<"Age", "Gender", "Protein1", "Protein2", "Protein3", "Protein4", "Tumour_Stage",
    "Histology", "ER status", "PR status", "HER2 status", "Surgery_type">>

\* a patient dict as the tool writes it, key by key
Patient(age, p1, p2, p3, p4, stage, histology, er, pr, her2, surgery) ==
  Dict(PatientKeys,
  [k \in {PatientKeys[i] : i \in 1..Len(PatientKeys)} |->
     CASE k = "Age" -> IntCell(age)
       [] k = "Gender" -> StrCell(Upper(sFemale))
       [] k = "Protein1" -> FloatCell(p1)
       [] k = "Protein2" -> FloatCell(p2)
       [] k = "Protein3" -> FloatCell(p3)
       [] k = "Protein4" -> FloatCell(p4)
       [] k = "Tumour_Stage" -> StrCell(stage)
       [] k = "Histology" -> StrCell(histology)
       [] k = "ER status" -> StrCell(er)
       [] k = "PR status" -> StrCell(pr)
       [] k = "HER2 status" -> StrCell(her2)
       [] OTHER -> StrCell(surgery)])

patient1 == Patient(68, -500, 800, 200, -300, sIII, sIDC, sNegative, sNegative, sPositive, sMastectomy)
patient2 == Patient(52, 500, 1200, -100, 50, sII, sIDC, sPositive, sPositive, sNegative, sLumpectomy)
patient3 == Patient(42, 950, 2150, 8, -50, sI, sILC, sPositive, sPositive, sNegative, sOther)

ExamplePatients == <<patient1, patient2, patient3>>

\* The module-level example predictions, one per step; the console holds the
\* line of the loading and one entry per printed outcome
example_prediction ==
  /\ program = "cli"
  /\ pc = "examples"
  /\ \E daysT \in ModelOutputs :
       \E c \in {predict_survival(ExamplePatients[Len(console)], bundle, daysT)} :
         /\ call' = c
         /\ bundle' = c.globals
         /\ IF c.raised
            THEN /\ console' = console
                 /\ pc' = "exited"
            ELSE /\ console' = Append(console, "result")
                 /\ pc' = IF Len(console) = Len(ExamplePatients) THEN "menu" ELSE "examples"
  /\ UNCHANGED <<program, request, response, stdin, batch>>

MenuChoices == {<<"1">>, <<"2">>, <<"3">>, <<"4">>, <<>>, <<"x">>, <<"3", " ">>}

\* main(): the menu
main ==
  /\ program = "cli"
  /\ pc = "menu"
  /\ \E choice \in MenuChoices :
       pc' = IF Strip(choice) = <<"2">> THEN "interactive"
             ELSE IF Strip(choice) = <<"3">> THEN "batch"
             ELSE "exited"
  /\ call' = NoCall
  /\ UNCHANGED <<program, bundle, request, response, stdin, console, batch>>

\* x if x in allowed else default
OneOf(x, allowed, default) == IF InList(x, allowed) THEN x ELSE default

\* histology_map.get(hist, 'Infiltrating Ductal Carcinoma')
HistologyChoice(hist) ==
  IF hist = <<"1">> THEN sIDC
  ELSE IF hist = <<"2">> THEN sILC
  ELSE IF hist = <<"3">> THEN sMucinousCarcinoma
  ELSE sIDC

\* surgery_map.get(surg, 'Lumpectomy')
SurgeryChoice(surg) ==
  IF surg = <<"1">> THEN sLumpectomy
  ELSE IF surg = <<"2">> THEN sMastectomy
  ELSE IF surg = <<"3">> THEN sMRM
  ELSE IF surg = <<"4">> THEN sOther
  ELSE sLumpectomy

\* the lines typed at the prompts of interactive_mode
NoLines ==
  [age |-> <<>>, p1 |-> <<>>, p2 |-> <<>>, p3 |-> <<>>, p4 |-> <<>>, stage |-> <<>>,
   hist |-> <<>>, er |-> <<>>, pr |-> <<>>, her2 |-> <<>>, surg |-> <<>>]

AgeTyped ==
  {IntStr(n) : n \in {-5, AgeMin - 1, AgeMin, 50, AgeMax, AgeMax + 1, 150}}
    \cup {<<"a","b","c">>, FloatStr(68500), sSpace \o IntStr(150) \o sSpace, <<"+">> \o IntStr(30)}

ProteinTyped ==
  {FloatStr(m) : m \in {ProteinMinM - 100, ProteinMinM, 0, 8, ProteinMaxM, ProteinMaxM + 1, 9900}}
    \cup {<<"x">>, IntStr(7), <<".">>}

ChoiceTyped == {<<"1">>, <<"2">>, <<"3">>, <<"4">>, <<"9">>}

StageTyped == {sI, sII, sIII, Lower(sIII), <<"I","V">>}

StatusTyped == {sPositive, sNegative, Lower(sNegative), Upper(sPositive)}

InteractiveLines ==
  {NoLines}
    \cup {[NoLines EXCEPT !.age = v] : v \in AgeTyped}
    \cup {[NoLines EXCEPT !.p1 = v] : v \in ProteinTyped}
    \cup {[NoLines EXCEPT !.p2 = v] : v \in ProteinTyped}
    \cup {[NoLines EXCEPT !.p3 = v] : v \in ProteinTyped}
    \cup {[NoLines EXCEPT !.p4 = v] : v \in ProteinTyped}
    \cup {[NoLines EXCEPT !.stage = v] : v \in StageTyped}
    \cup {[NoLines EXCEPT !.hist = v] : v \in ChoiceTyped}
    \cup {[NoLines EXCEPT !.er = v] : v \in StatusTyped}
    \cup {[NoLines EXCEPT !.pr = v] : v \in StatusTyped}
    \cup {[NoLines EXCEPT !.her2 = v] : v \in StatusTyped}
    \cup {[NoLines EXCEPT !.surg = v] : v \in ChoiceTyped}
    \cup {[NoLines EXCEPT !.age = a, !.p1 = p] : a \in {IntStr(150), <<"a","b","c">>},
                                                  p \in {FloatStr(9900), <<"x">>}}

\* int(age) if age else 50, and float(p) if p else default: the prompts whose
\* answer raises ValueError
InputRaises(lines) ==
  \/ Strip(lines.age) # <<>> /\ ~IntParses(Strip(lines.age))
  \/ \E p \in {lines.p1, lines.p2, lines.p3, lines.p4} : Strip(p) # <<>> /\ ~FloatParses(Strip(p))

FloatOr(line, default) == IF Strip(line) # <<>> THEN FloatOfM(Strip(line)) ELSE default

\* the patient dict interactive_mode builds from the typed lines
InteractivePatient(lines) ==
  Patient(IF Strip(lines.age) # <<>> THEN IntOf(Strip(lines.age)) ELSE 50,
          FloatOr(lines.p1, 500), FloatOr(lines.p2, 1000), FloatOr(lines.p3, 0),
          FloatOr(lines.p4, 0),
          OneOf(Strip(lines.stage), <<sI, sII, sIII>>, sII),
          HistologyChoice(Strip(lines.hist)),
          OneOf(Strip(lines.er), <<sPositive, sNegative>>, sPositive),
          OneOf(Strip(lines.pr), <<sPositive, sNegative>>, sPositive),
          OneOf(Strip(lines.her2), <<sPositive, sNegative>>, sNegative),
          SurgeryChoice(Strip(lines.surg)))

interactive_mode ==
  /\ program = "cli"
  /\ pc = "interactive"
  /\ \E lines \in InteractiveLines :
       /\ stdin' = [typed |-> TRUE, lines |-> lines]
       /\ IF InputRaises(lines)
          THEN /\ call' = NoCall
               /\ bundle' = bundle
               /\ console' = Append(console, "error")
          ELSE \E patient \in {InteractivePatient(lines)}, daysT \in ModelOutputs :
                 \E c \in {predict_survival(patient, bundle, daysT)} :
                   /\ call' = c
                   /\ bundle' = c.globals
                   /\ console' = Append(console, IF c.raised THEN "error" ELSE "result")
  /\ pc' = "exited"
  /\ UNCHANGED <<program, request, response, batch>>

\* How many rows a CSV file of the batch mode has at most
MaxRows == 2

SeqsUpTo(S, n) == UNION {[1..k -> S] : k \in 0..n}

\* rows of a file with the twelve columns: the first example patient, a
\* patient out of the declared bounds with an unseen histology, an age that
\* is no number
FullRows ==
  {patient1.val,
   With(With(With(patient1.val, "Age", IntCell(150)), "Protein1", FloatCell(9900)),
        "Histology", StrCell(Lower(sIDC))),
   With(patient1.val, "Age", StrCell(<<"n","/","a">>))}

\* the header of a file without the Histology and Protein2 columns and with
\* a Patient_ID column, and its rows
PartialKeys ==
  <<"Patient_ID", "Surgery_type", "Age", "Gender", "Protein1", "Protein3", "Protein4",
    "Tumour_Stage", "ER status", "PR status", "HER2 status">>

PartialRows ==
  {Without(Without(With(With(patient1.val, "Age", IntCell(a)), "Patient_ID", IntCell(7)),
                   "Histology"), "Protein2") : a \in {AgeMin - 1, 68}}

\* the files at the path typed at the prompt (absent, or with these rows)
CsvFiles ==
  {[exists |-> FALSE, header |-> <<>>, rows |-> <<>>]}
    \cup {[exists |-> TRUE, header |-> PatientKeys, rows |-> r] : r \in SeqsUpTo(FullRows, MaxRows)}
    \cup {[exists |-> TRUE, header |-> PartialKeys, rows |-> r] : r \in SeqsUpTo(PartialRows, MaxRows)}

\* pd.read_csv gives a column one dtype: a column with a cell that is no
\* number holds the text of every cell, a column of numbers with a float
\* holds floats
ColumnKind(rows, col) ==
  IF \E i \in 1..Len(rows) : rows[i][col].kind = "str" THEN "str"
  ELSE IF \E i \in 1..Len(rows) : rows[i][col].kind = "float" THEN "float"
  ELSE "int"

AsKind(cell, kind) ==
  IF kind = "str" THEN StrCell(AsTypeStr(cell))
  ELSE IF kind = "float" /\ cell.kind = "int" THEN FloatCell(1000 * cell.n)
  ELSE cell

\* df = pd.read_csv(csv_file), and row.to_dict() of each row
read_csv(csv) ==
  [i \in 1..Len(csv.rows) |->
     Dict(csv.header,
          [col \in DOMAIN csv.rows[i] |-> AsKind(csv.rows[i][col], ColumnKind(csv.rows, col))])]

\* batch_predict up to the loop: the file is read; FileNotFoundError is
\* reported
batch_predict ==
  /\ program = "cli"
  /\ pc = "batch"
  /\ \E csv \in CsvFiles :
       IF csv.exists
       THEN /\ batch' = [NoBatch EXCEPT !.rows = read_csv(csv)]
            /\ console' = Append(console, "loaded")
            /\ pc' = "batch_loop"
       ELSE /\ batch' = batch
            /\ console' = Append(console, "not found")
            /\ pc' = "exited"
  /\ call' = NoCall
  /\ UNCHANGED <<program, bundle, request, response, stdin>>

\* What model.predict returns for the rows of a batch: the estimates at most
\* a tenth of a day from 0 and from each threshold
BatchOutputs ==
  {daysT \in ModelOutputs :
     \E d \in {0, HighRiskDays, ElevatedRiskDays, ModerateRiskDays} :
       daysT - 10 * d \in {-1, 0, 1}}

\* batch_row with the try inside the loop: a row whose prediction raises is
\* reported and skipped, and the loop goes on
batch_row_skipping ==
  /\ program = "cli"
  /\ pc = "batch_loop"
  /\ batch.idx < Len(batch.rows)
  /\ \E daysT \in BatchOutputs :
       \E c \in {predict_survival(batch.rows[batch.idx + 1], bundle, daysT)} :
         /\ call' = c
         /\ bundle' = c.globals
         /\ IF c.raised
            THEN /\ batch' = [batch EXCEPT !.idx = batch.idx + 1]
                 /\ console' = Append(console, "error")
                 /\ pc' = pc
            ELSE /\ batch' = [batch EXCEPT
                                !.idx = batch.idx + 1,
                                !.results = Append(batch.results,
                                  [Patient_ID |-> batch.idx + 1,
                                   Predicted_Days |-> c.result.predicted_days,
                                   Predicted_Months |-> c.result.predicted_months,
                                   Risk_Category |-> c.result.risk_category,
                                   Recommendation |-> c.result.recommendation])]
                 /\ console' = console
                 /\ pc' = pc
  /\ UNCHANGED <<program, request, response, stdin>>

\* One iteration of the loop over df.iterrows(); an exception of
\* predict_survival leaves the loop for the handler of batch_predict, and the
\* results list is lost
batch_row ==
  /\ program = "cli"
  /\ pc = "batch_loop"
  /\ batch.idx < Len(batch.rows)
  /\ \E daysT \in BatchOutputs :
       \E c \in {predict_survival(batch.rows[batch.idx + 1], bundle, daysT)} :
         /\ call' = c
         /\ bundle' = c.globals
         /\ IF c.raised
            THEN /\ batch' = [batch EXCEPT !.results = <<>>]
                 /\ console' = Append(console, "error")
                 /\ pc' = "exited"
            ELSE /\ batch' = [batch EXCEPT
                                !.idx = batch.idx + 1,
                                !.results = Append(batch.results,
                                  [Patient_ID |-> batch.idx + 1,
                                   Predicted_Days |-> c.result.predicted_days,
                                   Predicted_Months |-> c.result.predicted_months,
                                   Risk_Category |-> c.result.risk_category,
                                   Recommendation |-> c.result.recommendation])]
                 /\ console' = console
                 /\ pc' = pc
  /\ UNCHANGED <<program, request, response, stdin>>

\* After the loop: batch_predictions.csv is written, then the summary and the
\* risk distribution are printed; with no row the frame has no Risk_Category
\* column and the KeyError is reported
batch_write ==
  /\ program = "cli"
  /\ pc = "batch_loop"
  /\ batch.idx = Len(batch.rows)
  /\ batch' = [batch EXCEPT !.written = TRUE, !.output_file = batch.results,
                            !.summary = (batch.results # <<>>)]
  /\ console' = console \o <<"saved">> \o (IF batch.results # <<>> THEN <<"distribution">> ELSE <<"error">>)
  /\ pc' = "exited"
  /\ call' = NoCall
  /\ UNCHANGED <<program, bundle, request, response, stdin>>

(***************************************************************************)
(* The specification                                                       *)
(***************************************************************************)
Next ==
  \/ LoadArtifacts
  \/ predict
  \/ read_root
  \/ health_check
  \/ Respond
  \/ example_prediction
  \/ main
  \/ interactive_mode
  \/ batch_predict
  \/ batch_row
  \/ batch_write

Spec == Init /\ [][Next]_vars

(***************************************************************************)
(* Properties                                                              *)
(***************************************************************************)
\* a call of predict_survival that returned a result
Returned == call.made /\ ~call.raised

\* a POST /predict has been handled and its response not yet sent
Handled == request.present /\ response.kind = "predict"

\* the tier of the table of section 4.4 for an estimate in tenths of a day
TableTier(daysT) ==
  IF daysT < 1800 THEN "HIGH RISK"
  ELSE IF daysT >= 1800 /\ daysT < 3650 THEN "ELEVATED RISK"
  ELSE IF daysT >= 3650 /\ daysT < 7300 THEN "MODERATE RISK"
  ELSE "LOWER RISK"

TableColor(tier) ==
  CASE tier = "HIGH RISK" -> "red"
    [] tier = "ELEVATED RISK" -> "orange"
    [] tier = "MODERATE RISK" -> "yellow"
    [] tier = "LOWER RISK" -> "green"

TableRecommendation(tier) ==
  CASE tier = "HIGH RISK" -> "Immediate intensive care and close monitoring required"
    [] tier = "ELEVATED RISK" -> "Enhanced monitoring and aggressive treatment recommended"
    [] tier = "MODERATE RISK" -> "Standard treatment protocol with regular follow-ups"
    [] tier = "LOWER RISK" -> "Standard care with routine monitoring"

\* C1: every result of predict_survival carries the tier of the half-open
\* threshold table for the estimate the model returned (180 is ELEVATED, 365
\* MODERATE, 730 LOWER), with the indicator and recommendation of that tier.
C1_TierByThresholds ==
  Returned =>
    /\ call.result.risk_category = TableTier(call.predicted_days)
    /\ call.result.risk_color = TableColor(call.result.risk_category)
    /\ call.result.recommendation = TableRecommendation(call.result.risk_category)

\* an estimate of exactly 180.0 days was classified ELEVATED RISK
C1_Witness ==
  /\ Returned
  /\ call.predicted_days = 1800
  /\ call.result.risk_category = "ELEVATED RISK"
  /\ call.result.risk_color = "orange"

\* C2: predicted_days is the estimate rounded to whole days, and whenever the
\* rounded value lies in another tier than the estimate, risk_category is the
\* tier of the unrounded estimate.
C2_TierFromUnroundedEstimate ==
  Returned =>
    /\ 10 * call.result.predicted_days - call.predicted_days \in (-5)..5
    /\ TableTier(10 * call.result.predicted_days) # TableTier(call.predicted_days)
         => /\ call.result.risk_category = TableTier(call.predicted_days)
            /\ call.result.risk_category # TableTier(10 * call.result.predicted_days)

\* an estimate of 179.6 days was reported as 180 days and classified HIGH RISK
C2_Witness ==
  /\ Returned
  /\ call.predicted_days = 1796
  /\ call.result.predicted_days = 180
  /\ call.result.risk_category = "HIGH RISK"

\* two strings that are equal when compared case-insensitively
SameIgnoringCase(a, b) == Lower(a) = Lower(b)

\* the string a request gives for the field f, if it gives one
GivesString(f) ==
  /\ Supplied(request.body, f)
  /\ RawValue(request.body, f).kind = "str"

\* C3: an ER/PR/HER2 status that equals "positive" or "negative" in any
\* casing is accepted and normalized to "Positive" or "Negative"; any other
\* string is rejected with an error on that field.
C3_StatusAnyCasingAccepted ==
  Handled =>
    \A f \in StatusFields :
      GivesString(f) =>
        LET v == RawValue(request.body, f).s IN
          IF SameIgnoringCase(v, sPositive) \/ SameIgnoringCase(v, sNegative)
          THEN /\ f \notin response.errors
               /\ call.made =>
                    call.patient_data.val[Alias(f)] =
                      StrCell(IF SameIgnoringCase(v, sPositive) THEN sPositive ELSE sNegative)
          ELSE f \in response.errors

\* the Age a request gives, if it gives an integer
GivesAge == Supplied(request.body, "Age") /\ RawValue(request.body, "Age").kind = "int"

\* C4: a request whose Age is outside [18, 100] is answered with a validation
\* error naming Age and predict_survival is not called; an Age inside the
\* range (18 and 100 included) raises no error on Age, and when the record is
\* valid predict_survival receives that Age.
C4_AgeBounds ==
  Handled /\ GivesAge =>
    LET age == RawValue(request.body, "Age").n IN
      IF age < 18 \/ age > 100
      THEN /\ response.status = 422
           /\ "Age" \in response.errors
           /\ ~call.made
      ELSE /\ "Age" \notin response.errors
           /\ response.errors = {} => /\ call.made
                                      /\ call.patient_data.val["Age"] = IntCell(age)

\* a request with Age 101 was refused with an error on Age and no prediction
C4_Witness ==
  /\ Handled
  /\ GivesAge
  /\ RawValue(request.body, "Age").n = 101
  /\ response.status = 422
  /\ response.errors = {"Age"}
  /\ ~call.made

\* C5: every numeric field of a record that enters predict_survival is within
\* its declared bound (Age in [18, 100], each protein in [-5.0, 5.0]).
C5_BoundsOnEntry ==
  call.made =>
    \A k \in KeySet(call.patient_data) :
      LET cell == call.patient_data.val[k] IN
        /\ k = "Age" /\ cell.kind = "int" => cell.n >= 18 /\ cell.n <= 100
        /\ k \in ProteinFields /\ cell.kind = "float" => cell.n >= -5000 /\ cell.n <= 5000

\* C6: the predicted_days of every result of predict_survival is non-negative.
C6_NonNegativeDays == Returned => call.result.predicted_days >= 0

\* the columns of the schema, the record and the encoder table
Schema == FeatureSet(bundle.features)

Given == KeySet(call.patient_data)

HasEncoder(col) == col \in DOMAIN bundle.label_encoders

\* the record gives, for an encoded column, a category its encoder knows
KnownCategory(col) ==
  \E i \in 1..Len(bundle.label_encoders[col]) :
    bundle.label_encoders[col][i] = AsTypeStr(call.patient_data.val[col])

CodeOf(col) ==
  (CHOOSE i \in 1..Len(bundle.label_encoders[col]) :
     bundle.label_encoders[col][i] = AsTypeStr(call.patient_data.val[col])) - 1

\* no column of the schema without an encoder holds text in the record, so
\* that nothing but an encoded column could make the scaler fail
PlainColumnsNumeric ==
  \A col \in (Schema \cap Given) : ~HasEncoder(col) => call.patient_data.val[col].kind # "str"

\* C7: when the record gives an encoded column of the schema a category the
\* encoder does not know, the frame holds 0 there, every other column holds
\* its own code or value, and the call returns a result.
C7_UnknownCategoryIsZero ==
  call.made =>
    \A col \in (Schema \cap Given) :
      HasEncoder(col) /\ ~KnownCategory(col) =>
        /\ call.df.val[col] = IntCell(0)
        /\ \A other \in (Schema \cap Given) \ {col} :
             IF HasEncoder(other)
             THEN KnownCategory(other) => call.df.val[other] = IntCell(CodeOf(other))
             ELSE call.df.val[other] = call.patient_data.val[other]
        /\ PlainColumnsNumeric => Returned /\ call.result.risk_category # ""

\* a request with an unseen histology was answered with a prediction made
\* from code 0 for Histology and code 2 for stage III
C7_Witness ==
  /\ Handled
  /\ response.status = 200
  /\ Returned
  /\ call.patient_data.val["Histology"] = StrCell(Lower(sIDC))
  /\ call.df.val["Histology"] = IntCell(0)
  /\ call.df.val["Tumour_Stage"] = IntCell(2)

\* C8: every feature of the schema that the record lacks is 0 in the frame
\* handed to the scaler, with or without an encoder, and the call returns a
\* result.
C8_MissingFeatureIsZero ==
  call.made =>
    /\ \A col \in Schema \ Given : call.df.val[col] = IntCell(0)
    /\ Schema \ Given # {} /\ PlainColumnsNumeric => Returned

\* a record without the encoded feature Patient_Status and without the plain
\* feature Tumour_Size was predicted with 0 for both
C8_Witness ==
  /\ Returned
  /\ {"Patient_Status", "Tumour_Size"} \subseteq Schema \ Given
  /\ HasEncoder("Patient_Status")
  /\ ~HasEncoder("Tumour_Size")
  /\ call.df.val["Patient_Status"] = IntCell(0)
  /\ call.df.val["Tumour_Size"] = IntCell(0)

\* C9: the frame handed to the scaler has exactly the columns of
\* metadata['features'], in that order, whatever keys the record has; each
\* column holds the value of its own feature (a code for an encoded column,
\* the record's value otherwise, 0 for a feature the record lacks).
C9_FrameIsSchema ==
  call.made =>
    /\ call.df.keys = bundle.features
    /\ Len(call.df.keys) = Len(bundle.features)
    /\ DOMAIN call.df.val = Schema
    /\ \A i \in 1..Len(bundle.features) :
         LET col == bundle.features[i]
             cell == call.df.val[call.df.keys[i]]
         IN IF col \notin Given THEN cell = IntCell(0)
            ELSE IF HasEncoder(col) THEN cell.kind = "int"
            ELSE cell = call.patient_data.val[col]

\* a record with a key that is no feature, without two features, and in
\* another key order than the schema was aligned to the schema
C9_Witness ==
  /\ call.made
  /\ "Patient_ID" \in Given \ Schema
  /\ Schema \ Given # {}
  /\ call.patient_data.keys # call.df.keys
  /\ call.df.keys = bundle.features

\* the allowed values of Gender and Tumour_Stage, in uppercase
UppercaseAllowed(f) ==
  IF f = "Gender" THEN {<<"M","A","L","E">>, <<"F","E","M","A","L","E">>}
  ELSE {<<"I">>, <<"I","I">>, <<"I","I","I">>}

\* C10: a Gender or Tumour_Stage that equals an allowed value in any casing
\* is accepted and normalized to uppercase; any other string is rejected
\* with an error on that field.
C10_GenderStageAnyCasing ==
  Handled =>
    \A f \in {"Gender", "Tumour_Stage"} :
      GivesString(f) =>
        LET v == RawValue(request.body, f).s IN
          IF \E a \in UppercaseAllowed(f) : SameIgnoringCase(v, a)
          THEN /\ f \notin response.errors
               /\ call.made =>
                    call.patient_data.val[f] =
                      StrCell(CHOOSE a \in UppercaseAllowed(f) : SameIgnoringCase(v, a))
          ELSE f \in response.errors

\* a request with Gender "male" was accepted and predicted as "MALE"
C10_Witness ==
  /\ Handled
  /\ response.status = 200
  /\ RawValue(request.body, "Gender").s = <<"m","a","l","e">>
  /\ call.made
  /\ call.patient_data.val["Gender"] = StrCell(<<"M","A","L","E">>)

\* all four artifacts were loaded: the try block ran to its end and the four
\* globals are bound
BundleComplete ==
  /\ bundle.loaded
  /\ bundle.files = ArtifactFiles
  /\ bundle \in Bundles

\* the process is past the loading and has not ended
Running == pc \notin {"loading", "exited"}

\* something was handled: a request received or answered, a call of
\* predict_survival made, input typed or a batch file read
HandledAnything ==
  \/ request.present
  \/ response # NoResponse
  \/ call.made
  \/ stdin.typed
  \/ batch # NoBatch

\* C11: the process serves, and has handled a request or a CLI prediction,
\* only if all four artifacts were loaded at startup; when the loading of any
\* of them fails the process has ended with nothing handled.
C11_ServesOnlyWithAllArtifacts ==
  /\ Running \/ HandledAnything => BundleComplete
  /\ pc # "loading" /\ ~BundleComplete => pc = "exited" /\ ~HandledAnything

\* the service ended at startup because model_metadata.json was unreadable,
\* the three files before it being loaded, and nothing was handled
C11_Witness ==
  /\ program = "api"
  /\ pc = "exited"
  /\ ~bundle.loaded
  /\ bundle.files = ArtifactFiles \ {"model_metadata.json"}
  /\ console = <<"traceback">>
  /\ ~HandledAnything

\* a call of predict_survival was made and left the globals as they are now
CallLeft == call.made /\ call.globals = bundle

AtRow == program = "cli" /\ pc = "batch_loop" /\ batch.idx < Len(batch.rows)

\* batch_predict ended before the last row: the prediction of a row raised
RowRaised == program = "cli" /\ pc = "exited" /\ batch.idx < Len(batch.rows)

\* the entry of the results for the row at index idx (from 0), made of the
\* result of the call c
ResultRow(idx, c) ==
  [Patient_ID |-> idx + 1,
   Predicted_Days |-> c.result.predicted_days,
   Predicted_Months |-> c.result.predicted_months,
   Risk_Category |-> c.result.risk_category,
   Recommendation |-> c.result.recommendation]

\* what holds in every state of a batch
BatchAllOrNothing ==
  /\ batch.written =>
        /\ batch.idx = Len(batch.rows)
        /\ Len(batch.output_file) = Len(batch.rows)
        /\ \A i \in 1..Len(batch.output_file) : batch.output_file[i].Patient_ID = i
  /\ batch.summary => batch.written
  /\ RowRaised =>
        /\ call.raised
        /\ batch.results = <<>>
        /\ ~batch.written
        /\ batch.output_file = <<>>
        /\ ~batch.summary
        /\ \A i \in 1..Len(console) : console[i] \notin {"saved", "distribution"}

\* what every step of a batch does: the row at the index is the one
\* predicted, a returning prediction appends its result and moves to the next
\* row, a raising one ends the batch; the file is written from the results of
\* all the rows
BatchStep ==
  /\ AtRow =>
        /\ call'.made
        /\ call'.patient_data = batch.rows[batch.idx + 1]
        /\ batch'.rows = batch.rows
        /\ ~batch'.written
        /\ IF call'.raised
           THEN pc' = "exited" /\ batch'.idx = batch.idx /\ batch'.results = <<>>
           ELSE /\ pc' = "batch_loop"
                /\ batch'.idx = batch.idx + 1
                /\ batch'.results = Append(batch.results, ResultRow(batch.idx, call'))
  /\ batch'.written /\ ~batch.written =>
        /\ batch.idx = Len(batch.rows)
        /\ Len(batch.results) = Len(batch.rows)
        /\ batch'.output_file = batch.results

\* C13: batch_predict predicts the rows one after the other in the order of
\* the file and writes the output only after the last row; when the
\* prediction of a row raises, the results of the rows before it are lost, no
\* file is written and no risk distribution is printed; when no row raises
\* the output has one result per row, in the order of the rows, with
\* Patient_ID the index of the row plus 1.
C13_BatchAllOrNothing == [](BatchAllOrNothing) /\ [][BatchStep]_vars

\* the second row of a file of two raised after the first had returned:
\* nothing is kept, written or summarised
C13_Witness ==
  /\ RowRaised
  /\ Len(batch.rows) = 2
  /\ batch.idx = 1
  /\ call.raised
  /\ batch.results = <<>>
  /\ ~batch.written
  /\ console[Len(console)] = "error"

====
